---- MODULE Spec2Model ----
(***************************************************************************)
(* State-machine model of the quiz session engine of src/quiz_app.py:      *)
(* the per-browser-session state (st.session_state), the filter and        *)
(* navigation handlers, the option shuffle, and the read-modify-write      *)
(* persistence against the shared worksheet.                               *)
(*                                                                         *)
(* Python lists are sequences read with a 0-based index (At0); Python      *)
(* dicts are functions whose DOMAIN is the key set; Python sets are sets.  *)
(* selected_options, a list of distinct display positions, is kept as the  *)
(* set of its elements (the code only tests it for emptiness and takes     *)
(* set() of it).                                                           *)
(***************************************************************************)
EXTENDS Integers, Sequences, FiniteSets, TLC

VARIABLES
    session_state,  \* session -> the st.session_state of that browser session
    sheet,          \* the "UserData" worksheet: user_id -> stored row
    conn,           \* the st.cache_resource cache of get_gsheets_connection
    pc,             \* session -> position inside save_user_data_to_sheets
    save_data,      \* session -> the row prepared at lines 185-192
    df,             \* session -> the table read at line 197
    shadow,         \* session 1 after the last action, had its save succeeded
    returned,       \* the value a function applied on its own returned
    last_op,        \* the last action taken and its argument
    last_save,      \* what the last action did to the worksheet
    notice,         \* the st.warning / st.toast / st.error of the last action
    failures        \* number of injected store failures so far

vars == <<session_state, sheet, conn, pc, save_data, df, shadow, returned,
          last_op, last_save, notice, failures>>

(***************************************************************************)
(* Bounds of the model.                                                    *)
(***************************************************************************)
\* submissions recorded in current_session_stats.total before Submit stops
MaxTotal == 2
\* random.randint(0, 1000000) draws the shuffle seed from 0..SeedMax
SeedMax == 1
\* store failures (read or write errors) injected in one behaviour
MaxFailures == 1
\* browser sessions in the concurrent specification
\* options of the question the evaluator is applied to on its own
EvalOptions == 3

NumSessions == 2

Sessions == 1..NumSessions
Users == {"u1", "u2"}
Tags == {"all", "marked", "incorrect", "unanswered"}

(***************************************************************************)
(* Helpers for Python lists.                                               *)
(***************************************************************************)
At0(seq, i) == seq[i + 1]

Elems(seq) == {seq[k] : k \in 1..Len(seq)}

\* list(range(n))
Range0(n) == [k \in 1..n |-> k - 1]

\* list.index(x): position of the first occurrence
Index0(seq, x) == (CHOOSE k \in 1..Len(seq) :
                      seq[k] = x /\ \A j \in 1..(k - 1) : seq[j] # x) - 1

RECURSIVE SortedSeq(_)
SortedSeq(S) ==
    IF S = {} THEN <<>>
    ELSE LET m == CHOOSE x \in S : \A y \in S : x <= y
         IN <<m>> \o SortedSeq(S \ {m})

Permutations0(n) ==
    {p \in [1..n -> 0..(n - 1)] : \A a, b \in 1..n : p[a] = p[b] => a = b}

(***************************************************************************)
(* The question bank (load_questions), kept in st.session_state.questions: *)
(* each question is the list of its options' status.  Question 0 has one   *)
(* correct option (rendered as a radio), question 1 has two (rendered as   *)
(* checkboxes).                                                            *)
(***************************************************************************)
Bank ==
    << <<"incorrect", "correct">>,
       <<"correct", "correct">> >>

\* the bank indices of a session's questions
QIds(s) == 0..(Len(s.questions) - 1)

count_correct_options(question) ==
    Cardinality({k \in 1..Len(question) : question[k] = "correct"})

(***************************************************************************)
(* random.Random(f"{shuffle_seed}_{question_idx}").shuffle(indices): a     *)
(* generator seeded from the pair, then a Fisher-Yates pass from the last  *)
(* position down.  The generator is a small linear congruential one: what  *)
(* matters is that the order is a function of (seed, question) alone.      *)
(***************************************************************************)
rng_seed(seed, question_idx) == (seed * 7 + question_idx * 3 + 1) % 11

rng_next(x) == (x * 5 + 3) % 11

Swap0(seq, i, j) == [seq EXCEPT ![i + 1] = seq[j + 1], ![j + 1] = seq[i + 1]]

RECURSIVE rng_shuffle(_, _, _)
rng_shuffle(seq, i, x) ==
    IF i < 1 THEN seq
    ELSE rng_shuffle(Swap0(seq, i, x % (i + 1)), i - 1, rng_next(x))

\* the order computed at lines 236-240 on a memo miss
shuffled_order(s, question_idx) ==
    LET indices == Range0(Len(At0(s.questions, question_idx)))
    IN rng_shuffle(indices, Len(indices) - 1,
                   rng_seed(s.shuffle_seed, question_idx))

\* get_shuffled_options seeded from the cursor instead of the epoch seed,
\* and keeping no memo
get_shuffled_options_by_position(s, question_idx) ==
    shuffled_order([s EXCEPT !.shuffle_seed = s.current_index], question_idx)

\* get_shuffled_options: the returned order (memo hit, or computed)
get_shuffled_options(s, question_idx) ==
    IF question_idx \in DOMAIN s.option_order
    THEN s.option_order[question_idx]
    ELSE shuffled_order(s, question_idx)

\* get_shuffled_options: its effect on the session (the memo entry it adds)
memoize_option_order(s, question_idx) ==
    IF question_idx \in DOMAIN s.option_order
    THEN s
    ELSE [s EXCEPT !.option_order =
             [q \in DOMAIN s.option_order \cup {question_idx} |->
                 IF q = question_idx
                 THEN shuffled_order(s, question_idx)
                 ELSE s.option_order[q]]]

\* reset_option_orders, with the seed random.randint draws
reset_option_orders(s, seed) ==
    [s EXCEPT !.option_order = <<>>, !.shuffle_seed = seed]

(***************************************************************************)
(* Filtering.                                                              *)
(***************************************************************************)
all_indices(s) ==
    IF s.shuffle_mode THEN s.shuffled_indices ELSE Range0(Len(s.questions))

get_filtered_indices(s) ==
    LET base == all_indices(s)
        filter_modes == s.filter_modes
        marked == IF "marked" \in filter_modes
                  THEN {i \in Elems(base) : i \in s.marked_questions}
                  ELSE {}
        incorrect == IF "incorrect" \in filter_modes
                     THEN {i \in Elems(base) :
                              i \in DOMAIN s.history /\ ~s.history[i].correct}
                     ELSE {}
        unanswered == IF "unanswered" \in filter_modes
                      THEN {i \in Elems(base) : i \notin DOMAIN s.history}
                      ELSE {}
        result == marked \cup incorrect \cup unanswered
    IN IF "all" \in filter_modes \/ filter_modes = {}
       THEN base
       ELSE SelectSeq(base, LAMBDA i : i \in result)

\* the evaluator without the translation of line 334: display positions
\* are compared with the original indices of the correct options
check_answer_unmapped(question, selected_display_indices, option_order) ==
    LET correct_indices == {k - 1 : k \in {j \in 1..Len(question) :
                                              question[j] = "correct"}}
    IN selected_display_indices = correct_indices

check_answer_with_shuffle(question, selected_display_indices, option_order) ==
    LET original_indices == {At0(option_order, i) : i \in selected_display_indices}
        correct_indices == {k - 1 : k \in {j \in 1..Len(question) :
                                              question[j] = "correct"}}
    IN original_indices = correct_indices

(***************************************************************************)
(* Serialisation of the stored row (lines 185-192) and its parsing         *)
(* (lines 158-163, 273-277).  json.dumps turns the int keys of history     *)
(* into strings and the mark set into a list; loading turns them back.     *)
(***************************************************************************)
KeyStr(k) == ToString(k)

KeyInt(str) == CHOOSE k \in 0..(Len(Bank) - 1) : KeyStr(k) = str

ZeroStats == [correct |-> 0, incorrect |-> 0, total |-> 0]

\* the row built with the mark column left at its default
build_save_data_without_marks(s) ==
    LET filtered_indices == get_filtered_indices(s)
    IN [history |-> [str \in {KeyStr(k) : k \in DOMAIN s.history} |->
                        s.history[KeyInt(str)]],
        marked |-> <<>>,
        stats |-> s.current_session_stats,
        last_question_index |->
            IF filtered_indices # <<>> /\ s.current_index < Len(filtered_indices)
            THEN At0(filtered_indices, s.current_index)
            ELSE 0]

\* lines 177-192: the row built from the session, without user_id/updated_at
build_save_data(s) ==
    LET filtered_indices == get_filtered_indices(s)
    IN [history |-> [str \in {KeyStr(k) : k \in DOMAIN s.history} |->
                        s.history[KeyInt(str)]],
        marked |-> SortedSeq(s.marked_questions),
        stats |-> s.current_session_stats,
        last_question_index |->
            IF filtered_indices # <<>> /\ s.current_index < Len(filtered_indices)
            THEN At0(filtered_indices, s.current_index)
            ELSE 0]

\* load_user_data_from_sheets that misses the stats column and falls back
\* to the default of line 162
load_user_data_without_stats(table, cached_conn, user_id, read_ok) ==
    IF cached_conn # "connected" \/ ~read_ok \/ user_id \notin DOMAIN table
    THEN <<>>
    ELSE <<[table[user_id] EXCEPT !.stats = ZeroStats]>>

\* load_user_data_from_sheets: <<>> is None, <<data>> the dict it returns
load_user_data_from_sheets(table, cached_conn, user_id, read_ok) ==
    IF cached_conn # "connected" \/ ~read_ok \/ user_id \notin DOMAIN table
    THEN <<>>
    ELSE <<table[user_id]>>

(***************************************************************************)
(* initialize_session_state on the first run of a session: the state of a  *)
(* new browser session for user_id, hydrated from saved_data.              *)
(***************************************************************************)
initialize_session_state(bank, user_id, seed, saved_data) ==
    LET loaded == saved_data # <<>>
        row == saved_data[1]
    IN [questions |-> bank,
        user_id |-> user_id,
        shuffle_seed |-> seed,
        history |-> IF loaded
                    THEN [k \in {KeyInt(str) : str \in DOMAIN row.history} |->
                             row.history[KeyStr(k)]]
                    ELSE <<>>,
        marked_questions |-> IF loaded THEN Elems(row.marked) ELSE {},
        current_session_stats |-> IF loaded THEN row.stats ELSE ZeroStats,
        current_index |-> IF loaded THEN row.last_question_index ELSE 0,
        answered |-> FALSE,
        selected_options |-> {},
        shuffle_mode |-> FALSE,
        shuffled_indices |-> Range0(Len(bank)),
        filter_modes |-> {"all"},
        option_order |-> <<>>,
        choice_key |-> <<>>,
        choice_value |-> {},
        fault |-> FALSE]

(***************************************************************************)
(* One script run (main) with no button pressed: what rendering does to    *)
(* the session.  Every handler ends in st.rerun(), so this run follows it. *)
(***************************************************************************)
\* line 384 reads filtered_indices[current_index] with no bound check
header_index_fault(s) ==
    LET filtered_indices == get_filtered_indices(s)
    IN filtered_indices # <<>> /\ s.current_index >= Len(filtered_indices)

\* the st.radio (one correct option) or st.checkbox group of lines 460-474:
\* Streamlit keeps the value of a widget whose key is unchanged and creates
\* a widget with a new key at its default (radio: index 0; checkboxes: off)
choice_default(s, question_idx) ==
    IF count_correct_options(At0(s.questions, question_idx)) = 1
    THEN {0}
    ELSE {}

\* display_question, lines 412-474, when no button is pressed
display_question(s) ==
    LET filtered_indices == get_filtered_indices(s)
        clamped == IF s.current_index >= Len(filtered_indices)
                   THEN [s EXCEPT !.current_index = 0]
                   ELSE s
        question_idx == At0(filtered_indices, clamped.current_index)
        with_order == memoize_option_order(clamped, question_idx)
        key == <<question_idx, with_order.shuffle_seed>>
        value == IF with_order.choice_key = key
                 THEN with_order.choice_value
                 ELSE choice_default(with_order, question_idx)
    IN IF filtered_indices = <<>>
       THEN [s EXCEPT !.choice_key = <<>>, !.choice_value = {}]
       ELSE IF with_order.answered
       THEN [with_order EXCEPT !.choice_key = <<>>, !.choice_value = {}]
       ELSE [with_order EXCEPT !.choice_key = key,
                               !.choice_value = value,
                               !.selected_options = value]

\* main(): the header raises IndexError before anything else is drawn
rerun(s) ==
    IF header_index_fault(s)
    THEN [s EXCEPT !.fault = TRUE]
    ELSE display_question(s)

(***************************************************************************)
(* save_user_data_to_sheets.  The worksheet is a table with one row per    *)
(* user_id; an empty table is <<>>.                                        *)
(***************************************************************************)
\* lines 196-201: a failed read is swallowed and replaced by an empty frame
read_table(table, read_ok) == IF read_ok THEN table ELSE <<>>

\* upsert_row that appends a missing row but leaves an existing one alone
upsert_row_keep_existing(frame, user_id, row) ==
    IF user_id \in DOMAIN frame
    THEN frame
    ELSE [u \in DOMAIN frame \cup {user_id} |->
             IF u = user_id THEN row ELSE frame[u]]

\* lines 204-209: overwrite the user's row, or append it
upsert_row(frame, user_id, row) ==
    [u \in DOMAIN frame \cup {user_id} |->
        IF u = user_id THEN row ELSE frame[u]]

\* save_user_data_to_sheets that, when conn.update raises, puts the session
\* back to what the worksheet holds
save_user_data_to_sheets_rollback(s, table, cached_conn, outcome) ==
    IF cached_conn # "connected"
    THEN [ss |-> s, sheet |-> table, status |-> "skipped", notice |-> "none"]
    ELSE LET frame == read_table(table, outcome # "read_error")
             updated == upsert_row(frame, s.user_id, build_save_data(s))
             stored == initialize_session_state(s.questions, s.user_id,
                           s.shuffle_seed,
                           load_user_data_from_sheets(table, cached_conn,
                                                      s.user_id, TRUE))
         IN IF outcome = "write_error"
            THEN [ss |-> stored, sheet |-> table, status |-> "failed",
                  notice |-> "save_error"]
            ELSE [ss |-> s, sheet |-> updated, status |-> "written",
                  notice |-> "none"]

\* the whole call, for a given outcome of the store: "ok", "read_error"
\* (conn.read raises, conn.update succeeds) or "write_error" (conn.update
\* raises).  Returns the session, the table, and what was signalled.
save_user_data_to_sheets(s, table, cached_conn, outcome) ==
    IF cached_conn # "connected"
    THEN [ss |-> s, sheet |-> table, status |-> "skipped", notice |-> "none"]
    ELSE LET frame == read_table(table, outcome # "read_error")
             updated == upsert_row(frame, s.user_id, build_save_data(s))
         IN IF outcome = "write_error"
            THEN [ss |-> s, sheet |-> table, status |-> "failed",
                  notice |-> "save_error"]
            ELSE [ss |-> s, sheet |-> updated, status |-> "written",
                  notice |-> "none"]

(***************************************************************************)
(* The handlers, up to (not including) their save and st.rerun().          *)
(***************************************************************************)
\* go_to_next_question with the wrap test off by one
go_to_next_question_late_wrap(s, seed) ==
    LET filtered_indices == get_filtered_indices(s)
        moved == IF s.current_index < Len(filtered_indices)
                 THEN [s EXCEPT !.current_index = s.current_index + 1]
                 ELSE [s EXCEPT !.current_index = 0]
    IN reset_option_orders([moved EXCEPT !.answered = FALSE,
                                         !.selected_options = {}], seed)

go_to_next_question(s, seed) ==
    LET filtered_indices == get_filtered_indices(s)
        moved == IF s.current_index < Len(filtered_indices) - 1
                 THEN [s EXCEPT !.current_index = s.current_index + 1]
                 ELSE [s EXCEPT !.current_index = 0]
    IN reset_option_orders([moved EXCEPT !.answered = FALSE,
                                         !.selected_options = {}], seed)

go_to_prev_question(s, seed) ==
    LET filtered_indices == get_filtered_indices(s)
        moved == IF s.current_index > 0
                 THEN [s EXCEPT !.current_index = s.current_index - 1]
                 ELSE [s EXCEPT !.current_index = Len(filtered_indices) - 1]
    IN reset_option_orders([moved EXCEPT !.answered = FALSE,
                                         !.selected_options = {}], seed)

\* the question display_question shows (line 437)
current_question(s) == At0(get_filtered_indices(s), s.current_index)

\* lines 448-452
toggle_mark(s) ==
    LET question_idx == current_question(s)
    IN IF question_idx \in s.marked_questions
       THEN [s EXCEPT !.marked_questions = @ \ {question_idx}]
       ELSE [s EXCEPT !.marked_questions = @ \cup {question_idx}]

\* the history update without line 486: a repeat keeps the first outcome
record_history_keep_first(history, question_idx, is_correct) ==
    IF question_idx \notin DOMAIN history
    THEN [q \in DOMAIN history \cup {question_idx} |->
             IF q = question_idx
             THEN [correct |-> is_correct, attempts |-> 1]
             ELSE history[q]]
    ELSE [history EXCEPT ![question_idx] =
             [correct |-> @.correct, attempts |-> @.attempts + 1]]

\* lines 481-486
record_history(history, question_idx, is_correct) ==
    IF question_idx \notin DOMAIN history
    THEN [q \in DOMAIN history \cup {question_idx} |->
             IF q = question_idx
             THEN [correct |-> is_correct, attempts |-> 1]
             ELSE history[q]]
    ELSE [history EXCEPT ![question_idx] =
             [correct |-> is_correct, attempts |-> @.attempts + 1]]

\* the stats update with line 489 moved into the branch of a right answer
record_stats_total_if_correct(stats, is_correct) ==
    IF is_correct
    THEN [stats EXCEPT !.total = @ + 1, !.correct = @ + 1]
    ELSE [stats EXCEPT !.incorrect = @ + 1]

\* lines 488-493
record_stats(stats, is_correct) ==
    IF is_correct
    THEN [stats EXCEPT !.total = @ + 1, !.correct = @ + 1]
    ELSE [stats EXCEPT !.total = @ + 1, !.incorrect = @ + 1]

\* the submit button without the test of line 477
submit_answer_unguarded(s) ==
    LET question_idx == current_question(s)
        option_order == get_shuffled_options(s, question_idx)
        is_correct == check_answer_with_shuffle(At0(s.questions, question_idx),
                                                s.selected_options, option_order)
    IN [accepted |-> TRUE,
        ss |-> [s EXCEPT !.answered = TRUE,
                  !.history = record_history(@, question_idx, is_correct),
                  !.current_session_stats = record_stats(@, is_correct)]]

\* lines 476-500, the submit button: an empty selection is turned away
\* with st.warning, anything else is evaluated and recorded
submit_answer(s) ==
    LET question_idx == current_question(s)
        option_order == get_shuffled_options(s, question_idx)
        is_correct == check_answer_with_shuffle(At0(s.questions, question_idx),
                                                s.selected_options, option_order)
    IN IF s.selected_options # {}
       THEN [accepted |-> TRUE,
             ss |-> [s EXCEPT !.answered = TRUE,
                       !.history = record_history(@, question_idx, is_correct),
                       !.current_session_stats = record_stats(@, is_correct)]]
       ELSE [accepted |-> FALSE, ss |-> s]

\* lines 530-533
try_again(s, seed) ==
    reset_option_orders([s EXCEPT !.answered = FALSE,
                                  !.selected_options = {}], seed)

\* the filter update that keeps `all` next to the specific tags
new_filter_modes_keep_all(all_checked, marked_checked, incorrect_checked, unanswered_checked) ==
    (IF all_checked THEN {"all"} ELSE {})
    \cup (IF marked_checked THEN {"marked"} ELSE {})
    \cup (IF incorrect_checked THEN {"incorrect"} ELSE {})
    \cup (IF unanswered_checked THEN {"unanswered"} ELSE {})

\* lines 596-615
new_filter_modes(all_checked, marked_checked, incorrect_checked, unanswered_checked) ==
    LET has_specific_filter ==
            marked_checked \/ incorrect_checked \/ unanswered_checked
    IN IF all_checked /\ ~has_specific_filter THEN {"all"}
       ELSE IF has_specific_filter
       THEN (IF marked_checked THEN {"marked"} ELSE {})
            \cup (IF incorrect_checked THEN {"incorrect"} ELSE {})
            \cup (IF unanswered_checked THEN {"unanswered"} ELSE {})
       ELSE {"all"}

\* the filter update without line 619
set_filters_keep_position(s, new_modes) ==
    IF new_modes # s.filter_modes
    THEN [s EXCEPT !.filter_modes = new_modes,
                   !.answered = FALSE]
    ELSE s

\* lines 617-620
set_filters(s, new_modes) ==
    IF new_modes # s.filter_modes
    THEN [s EXCEPT !.filter_modes = new_modes,
                   !.current_index = 0,
                   !.answered = FALSE]
    ELSE s

\* lines 421-424, the button of the empty view
reset_filters(s) ==
    [s EXCEPT !.filter_modes = {"all"}, !.current_index = 0, !.answered = FALSE]

\* lines 628-634; order is what random.shuffle leaves in shuffled_indices
toggle_bank_shuffle(s, order) ==
    LET shuffle == ~s.shuffle_mode
    IN [s EXCEPT !.shuffle_mode = shuffle,
                 !.shuffled_indices = IF shuffle THEN order ELSE @,
                 !.current_index = 0,
                 !.answered = FALSE]

\* lines 650-657.  Line 654 assigns the key filter_mode, which no line
\* reads: filter_modes, the set the filter uses, is left as it is.
jump_to(s, target_idx, seed) ==
    LET filtered_indices == get_filtered_indices(s)
        moved == IF target_idx \in Elems(filtered_indices)
                 THEN [s EXCEPT !.current_index =
                                    Index0(filtered_indices, target_idx)]
                 ELSE [s EXCEPT !.current_index = target_idx]
    IN reset_option_orders([moved EXCEPT !.answered = FALSE], seed)

\* lines 695-698, the Go button of the marked list; line 695 assigns the
\* unread key filter_mode as line 654 does
go_marked(s, idx, seed) ==
    reset_option_orders([s EXCEPT !.current_index = idx,
                                  !.answered = FALSE], seed)

\* the history reset without line 668
clear_history_keep_stats(s) == [s EXCEPT !.history = <<>>]

\* the history reset that also empties the mark set
clear_history_and_marks(s) ==
    [s EXCEPT !.history = <<>>, !.current_session_stats = ZeroStats,
              !.marked_questions = {}]

\* lines 667-668
clear_history(s) ==
    [s EXCEPT !.history = <<>>, !.current_session_stats = ZeroStats]

\* line 673
clear_marks(s) == [s EXCEPT !.marked_questions = {}]

(***************************************************************************)
(* User actions.  Each runs to completion: the handler, its save, its      *)
(* st.rerun() and the script run that follows.  seeds is what              *)
(* random.randint may draw, outcomes what the store may do to the save.    *)
(***************************************************************************)
Seeds == 0..SeedMax

SaveOutcomes == {"ok", "read_error", "write_error"}

\* the handlers that call save_user_data_to_sheets (lines 354, 368, 453,
\* 496, 658, 669, 674, 699); "submit" saves when the answer is accepted
SavingOps == {"next", "prev", "toggle_mark", "submit", "jump_to", "go_marked",
              "clear_history", "clear_marks"}

Op(name, arg) == [op |-> name, arg |-> arg]

\* a drawn page offers its widgets only if the last run did not die
Ready(i) == ~session_state[i].fault /\ pc[i] = "idle"

\* widgets of the header and of display_question need a non-empty view
Shown(i) == Ready(i) /\ get_filtered_indices(session_state[i]) # <<>>

\* a store failure can be injected while the budget lasts
MayFail(outcome) ==
    outcome = "ok" \/ (conn = "connected" /\ failures < MaxFailures)

\* handler result m, then save_user_data_to_sheets, then st.rerun()
SaveAndRerun(i, op, m, outcome) ==
    LET r == save_user_data_to_sheets(m, sheet, conn, outcome)
        r_ok == save_user_data_to_sheets(m, sheet, "connected", "ok")
    IN /\ MayFail(outcome)
       /\ session_state' = [session_state EXCEPT ![i] = rerun(r.ss)]
       /\ shadow' = rerun(r_ok.ss)
       /\ sheet' = r.sheet
       /\ last_op' = op
       /\ last_save' = r.status
       /\ notice' = r.notice
       /\ failures' = IF outcome = "ok" THEN failures ELSE failures + 1
       /\ UNCHANGED <<conn, pc, save_data, df, returned>>

\* handler result m, then st.rerun(), with no save
Rerun(i, op, m) ==
    /\ session_state' = [session_state EXCEPT ![i] = rerun(m)]
    /\ shadow' = rerun(m)
    /\ last_op' = op
    /\ last_save' = "none"
    /\ notice' = "none"
    /\ UNCHANGED <<sheet, conn, pc, save_data, df, returned, failures>>

GoToNext(i, seeds, outcomes) ==
    /\ Shown(i)
    /\ \E seed \in seeds, outcome \in outcomes :
          SaveAndRerun(i, Op("next", 0),
                       go_to_next_question(session_state[i], seed), outcome)

GoToPrev(i, seeds, outcomes) ==
    /\ Shown(i)
    /\ \E seed \in seeds, outcome \in outcomes :
          SaveAndRerun(i, Op("prev", 0),
                       go_to_prev_question(session_state[i], seed), outcome)

ToggleMark(i, outcomes) ==
    /\ Shown(i)
    /\ \E outcome \in outcomes :
          SaveAndRerun(i, Op("toggle_mark", current_question(session_state[i])),
                       toggle_mark(session_state[i]), outcome)

\* the user changes the radio or one checkbox of the shown question
Select(i) ==
    /\ Shown(i)
    /\ ~session_state[i].answered
    /\ LET s == session_state[i]
           question == At0(s.questions, current_question(s))
       IN \E p \in 0..(Len(question) - 1) :
             LET value == IF count_correct_options(question) = 1
                          THEN {p}
                          ELSE IF p \in s.choice_value
                               THEN s.choice_value \ {p}
                               ELSE s.choice_value \cup {p}
             IN Rerun(i, Op("select", p), [s EXCEPT !.choice_value = value])

\* the submit button: accepted (saved, st.rerun()) or turned away (line
\* 500: the run just goes on, nothing is saved)
SubmitAnswer(i, outcomes) ==
    /\ Shown(i)
    /\ ~session_state[i].answered
    /\ LET s == session_state[i]
           r == submit_answer(s)
           op == Op("submit", current_question(s))
       IN IF r.accepted
          THEN /\ s.current_session_stats.total < MaxTotal
               /\ \E outcome \in outcomes : SaveAndRerun(i, op, r.ss, outcome)
          ELSE /\ session_state' = [session_state EXCEPT ![i] = r.ss]
               /\ shadow' = r.ss
               /\ last_op' = op
               /\ last_save' = "none"
               /\ notice' = "select_option"
               /\ UNCHANGED <<sheet, conn, pc, save_data, df, returned,
                              failures>>

TryAgain(i, seeds) ==
    /\ Shown(i)
    /\ session_state[i].answered
    /\ \E seed \in seeds :
          Rerun(i, Op("try_again", 0), try_again(session_state[i], seed))

\* the user flips one filter checkbox; the three specific boxes otherwise
\* show the tags of filter_modes
SetFilters(i) ==
    /\ Ready(i)
    /\ \E tag \in Tags, all_checked \in BOOLEAN :
          LET s == session_state[i]
              checked(t) == (t \in s.filter_modes) # (t = tag)
          IN Rerun(i, Op("set_filters", 0), set_filters(s,
                 new_filter_modes(all_checked, checked("marked"),
                                  checked("incorrect"), checked("unanswered"))))

\* The filter checkboxes are keyed widgets whose value= argument follows
\* filter_modes.  After the button changed filter_modes behind them, the
\* Streamlit release decides whether they are re-created from value= (the
\* filter stays {all}) or keep their checked state (lines 596-620 then put
\* the old tags back on the run that follows).
ResetFilters(i) ==
    /\ Ready(i)
    /\ get_filtered_indices(session_state[i]) = <<>>
    /\ \E keyed_state_kept \in BOOLEAN :
          LET s == session_state[i]
              m == reset_filters(s)
          IN IF keyed_state_kept
             THEN Rerun(i, Op("reset_filters", 1),
                        set_filters(rerun(m), s.filter_modes))
             ELSE Rerun(i, Op("reset_filters", 0), m)

ToggleBankShuffle(i) ==
    /\ Ready(i)
    /\ \E order \in Permutations0(Len(session_state[i].questions)) :
          /\ session_state[i].shuffle_mode =>
                order = session_state[i].shuffled_indices
          /\ Rerun(i, Op("toggle_bank_shuffle", 0),
                   toggle_bank_shuffle(session_state[i], order))

JumpTo(i, seeds, outcomes) ==
    /\ Shown(i)
    /\ \E target_idx \in QIds(session_state[i]), seed \in seeds,
          outcome \in outcomes :
          SaveAndRerun(i, Op("jump_to", target_idx),
                       jump_to(session_state[i], target_idx, seed), outcome)

GoMarked(i, seeds, outcomes) ==
    /\ Ready(i)
    /\ \E idx \in session_state[i].marked_questions, seed \in seeds,
          outcome \in outcomes :
          SaveAndRerun(i, Op("go_marked", idx),
                       go_marked(session_state[i], idx, seed), outcome)

ClearHistory(i, outcomes) ==
    /\ Ready(i)
    /\ \E outcome \in outcomes :
          SaveAndRerun(i, Op("clear_history", 0),
                       clear_history(session_state[i]), outcome)

ClearMarks(i, outcomes) ==
    /\ Ready(i)
    /\ \E outcome \in outcomes :
          SaveAndRerun(i, Op("clear_marks", 0),
                       clear_marks(session_state[i]), outcome)

\* the page is reloaded with the same uid= parameter: a new session that
\* hydrates from the worksheet (lines 259-298) and draws its first page
Reload(i, seeds, read_outcomes) ==
    /\ pc[i] = "idle"
    /\ \E seed \in seeds, read_ok \in read_outcomes :
          LET s == session_state[i]
              saved_data == load_user_data_from_sheets(sheet, conn, s.user_id,
                                                       read_ok)
              fresh == rerun(initialize_session_state(s.questions, s.user_id,
                                                      seed, saved_data))
          IN /\ MayFail(IF read_ok THEN "ok" ELSE "read_error")
             /\ session_state' = [session_state EXCEPT ![i] = fresh]
             /\ shadow' = fresh
             /\ last_op' = Op("reload", 0)
             /\ last_save' = "none"
             /\ notice' = IF read_ok \/ conn # "connected"
                          THEN "none" ELSE "load_error"
             /\ failures' = IF read_ok THEN failures ELSE failures + 1
             /\ UNCHANGED <<sheet, conn, pc, save_data, df, returned>>

(***************************************************************************)
(* Spec: one session against a store that works.                           *)
(***************************************************************************)
NoRow == [history |-> <<>>, marked |-> <<>>, stats |-> ZeroStats,
          last_question_index |-> 0]

\* the first page of new sessions of the given users, nothing stored yet
InitSessions(user_ids, seed) ==
    /\ sheet = <<>>
    /\ session_state = [i \in Sessions |->
           rerun(initialize_session_state(Bank, user_ids[i], seed, <<>>))]
    /\ shadow = session_state[1]
    /\ pc = [i \in Sessions |-> "idle"]
    /\ save_data = [i \in Sessions |-> NoRow]
    /\ df = [i \in Sessions |-> <<>>]
    /\ returned = <<>>
    /\ last_op = Op("init", 0)
    /\ last_save = "none"
    /\ notice = "none"
    /\ failures = 0

\* the one seed drawn where the option shuffle is not what is explored
OneSeed == {0}

OnlyOk == {"ok"}

Init ==
    /\ conn = "connected"
    /\ InitSessions([i \in Sessions |-> "u1"], 0)

Next ==
    \/ GoToNext(1, OneSeed, OnlyOk)
    \/ GoToPrev(1, OneSeed, OnlyOk)
    \/ ToggleMark(1, OnlyOk)
    \/ Select(1)
    \/ SubmitAnswer(1, OnlyOk)
    \/ TryAgain(1, OneSeed)
    \/ SetFilters(1)
    \/ ResetFilters(1)
    \/ JumpTo(1, OneSeed, OnlyOk)
    \/ GoMarked(1, OneSeed, OnlyOk)
    \/ ClearHistory(1, OnlyOk)
    \/ ClearMarks(1, OnlyOk)
    \/ Reload(1, OneSeed, {TRUE})

Spec == Init /\ [][Next]_vars

(***************************************************************************)
(* SpecShuffle: the session with every seed random.randint may draw (no    *)
(* question is marked).                                                    *)
(***************************************************************************)
InitShuffle ==
    /\ conn = "connected"
    /\ \E seed \in Seeds : InitSessions([i \in Sessions |-> "u1"], seed)

NextShuffle ==
    \/ GoToNext(1, Seeds, OnlyOk)
    \/ GoToPrev(1, Seeds, OnlyOk)
    \/ Select(1)
    \/ SubmitAnswer(1, OnlyOk)
    \/ TryAgain(1, Seeds)
    \/ SetFilters(1)
    \/ ResetFilters(1)
    \/ JumpTo(1, Seeds, OnlyOk)
    \/ ClearHistory(1, OnlyOk)
    \/ Reload(1, Seeds, {TRUE})

SpecShuffle == InitShuffle /\ [][NextShuffle]_vars

(***************************************************************************)
(* SpecBank: filtering and navigation over both base orderings (no answer  *)
(* is submitted).                                                          *)
(***************************************************************************)
NextBank ==
    \/ GoToNext(1, OneSeed, OnlyOk)
    \/ GoToPrev(1, OneSeed, OnlyOk)
    \/ ToggleMark(1, OnlyOk)
    \/ SetFilters(1)
    \/ ResetFilters(1)
    \/ ToggleBankShuffle(1)
    \/ JumpTo(1, OneSeed, OnlyOk)
    \/ GoMarked(1, OneSeed, OnlyOk)
    \/ ClearMarks(1, OnlyOk)

SpecBank == Init /\ [][NextBank]_vars

(***************************************************************************)
(* SpecStore: the session, under the filter {all}, against a store that    *)
(* may be unreachable (no connection) or fail on a read or a write.        *)
(***************************************************************************)
\* get_gsheets_connection ran at the first load: st.cache_resource keeps
\* what it returned, the connection or None
InitStore ==
    /\ conn \in {"connected", "none"}
    /\ InitSessions([i \in Sessions |-> "u1"], 0)

NextStore ==
    \/ GoToNext(1, OneSeed, SaveOutcomes)
    \/ GoToPrev(1, OneSeed, SaveOutcomes)
    \/ ToggleMark(1, SaveOutcomes)
    \/ Select(1)
    \/ SubmitAnswer(1, SaveOutcomes)
    \/ TryAgain(1, OneSeed)
    \/ JumpTo(1, OneSeed, SaveOutcomes)
    \/ GoMarked(1, OneSeed, SaveOutcomes)
    \/ ClearHistory(1, SaveOutcomes)
    \/ ClearMarks(1, SaveOutcomes)
    \/ Reload(1, OneSeed, BOOLEAN)

SpecStore == InitStore /\ [][NextStore]_vars

(***************************************************************************)
(* SpecTabs: several browser sessions (tabs) against the one worksheet.    *)
(* A save is no longer one step: the row is prepared (lines 175-192), the  *)
(* table is read (line 197), and the edited table is written back (line    *)
(* 212); other sessions run in between.                                    *)
(***************************************************************************)
\* a saving handler up to the call of conn.read
TabBegin(i, op, m) ==
    /\ session_state' = [session_state EXCEPT ![i] = m]
    /\ save_data' = [save_data EXCEPT ![i] = build_save_data(m)]
    /\ pc' = [pc EXCEPT ![i] = "read"]
    /\ last_op' = op
    /\ last_save' = "none"
    /\ notice' = "none"
    /\ UNCHANGED <<sheet, conn, df, shadow, returned, failures>>

TabToggleMark(i) ==
    /\ Shown(i)
    /\ TabBegin(i, Op("toggle_mark", current_question(session_state[i])),
                toggle_mark(session_state[i]))

\* lines 196-201
TabRead(i) ==
    /\ pc[i] = "read"
    /\ \E read_ok \in BOOLEAN :
          /\ MayFail(IF read_ok THEN "ok" ELSE "read_error")
          /\ df' = [df EXCEPT ![i] = read_table(sheet, read_ok)]
          /\ failures' = IF read_ok THEN failures ELSE failures + 1
    /\ pc' = [pc EXCEPT ![i] = "write"]
    /\ last_op' = Op("tab_read", i)
    /\ last_save' = "none"
    /\ notice' = "none"
    /\ UNCHANGED <<session_state, sheet, conn, save_data, shadow, returned>>

\* lines 204-215, then the handler's st.rerun()
TabWrite(i) ==
    /\ pc[i] = "write"
    /\ \E write_ok \in BOOLEAN :
          /\ MayFail(IF write_ok THEN "ok" ELSE "write_error")
          /\ sheet' = IF write_ok
                      THEN upsert_row(df[i], session_state[i].user_id,
                                      save_data[i])
                      ELSE sheet
          /\ last_save' = IF write_ok THEN "written" ELSE "failed"
          /\ notice' = IF write_ok THEN "none" ELSE "save_error"
          /\ failures' = IF write_ok THEN failures ELSE failures + 1
    /\ session_state' = [session_state EXCEPT ![i] = rerun(session_state[i])]
    /\ pc' = [pc EXCEPT ![i] = "idle"]
    /\ save_data' = [save_data EXCEPT ![i] = NoRow]
    /\ df' = [df EXCEPT ![i] = <<>>]
    /\ last_op' = Op("tab_write", i)
    /\ UNCHANGED <<conn, shadow, returned>>

\* session 1 belongs to u1; every other session to any user
InitTabs ==
    /\ conn = "connected"
    /\ \E user_ids \in [Sessions -> Users] :
          /\ user_ids[1] = "u1"
          /\ InitSessions(user_ids, 0)

NextTabs ==
    \E i \in Sessions :
        \/ TabToggleMark(i)
        \/ TabRead(i)
        \/ TabWrite(i)

SpecTabs == InitTabs /\ [][NextTabs]_vars

(***************************************************************************)
(* SpecFilter: get_filtered_indices applied on its own to every filter     *)
(* set, mark set, history and base ordering over a bank of three.          *)
(***************************************************************************)
FilterBank == Bank \o << <<"correct", "incorrect">> >>

FilterInputs ==
    LET base == initialize_session_state(FilterBank, "u1", 0, <<>>)
        ids == QIds(base)
        entries == {[correct |-> c, attempts |-> 1] : c \in BOOLEAN}
        histories == UNION {[D -> entries] : D \in SUBSET ids}
        orderings == {<<FALSE, Range0(Len(FilterBank))>>}
                     \cup {<<TRUE, order>> :
                              order \in Permutations0(Len(FilterBank))}
    IN {[base EXCEPT !.filter_modes = filter_modes,
                     !.marked_questions = marked,
                     !.history = history,
                     !.shuffle_mode = ordering[1],
                     !.shuffled_indices = ordering[2]] :
           filter_modes \in SUBSET Tags, marked \in SUBSET ids,
           history \in histories, ordering \in orderings}

InitFilter ==
    /\ conn = "connected"
    /\ sheet = <<>>
    /\ \E input \in FilterInputs :
          session_state = [i \in Sessions |-> input]
    /\ shadow = session_state[1]
    /\ pc = [i \in Sessions |-> "idle"]
    /\ save_data = [i \in Sessions |-> NoRow]
    /\ df = [i \in Sessions |-> <<>>]
    /\ returned = <<>>
    /\ last_op = Op("init", 0)
    /\ last_save = "none"
    /\ notice = "none"
    /\ failures = 0

ApplyFilter ==
    /\ returned = <<>>
    /\ returned' = <<get_filtered_indices(session_state[1])>>
    /\ last_op' = Op("get_filtered_indices", 0)
    /\ UNCHANGED <<session_state, sheet, conn, pc, save_data, df, shadow,
                   last_save, notice, failures>>

NextFilter == ApplyFilter

SpecFilter == InitFilter /\ [][NextFilter]_vars

(***************************************************************************)
(* SpecEval: check_answer_with_shuffle applied on its own, as line 479     *)
(* calls it, to every question of EvalOptions options, every order of its  *)
(* options and every non-empty selection of display positions.             *)
(***************************************************************************)
EvalInputs ==
    LET questions == [1..EvalOptions -> {"correct", "incorrect"}]
    IN {[initialize_session_state(<<question>>, "u1", 0, <<>>)
            EXCEPT !.option_order = (0 :> order),
                   !.selected_options = selected] :
           question \in questions, order \in Permutations0(EvalOptions),
           selected \in (SUBSET (0..(EvalOptions - 1))) \ {{}}}

InitEval ==
    /\ conn = "connected"
    /\ sheet = <<>>
    /\ \E input \in EvalInputs :
          session_state = [i \in Sessions |-> input]
    /\ shadow = session_state[1]
    /\ pc = [i \in Sessions |-> "idle"]
    /\ save_data = [i \in Sessions |-> NoRow]
    /\ df = [i \in Sessions |-> <<>>]
    /\ returned = <<>>
    /\ last_op = Op("init", 0)
    /\ last_save = "none"
    /\ notice = "none"
    /\ failures = 0

ApplyEval ==
    /\ returned = <<>>
    /\ LET s == session_state[1]
       IN returned' = <<check_answer_with_shuffle(At0(s.questions, 0),
                           s.selected_options, get_shuffled_options(s, 0))>>
    /\ last_op' = Op("check_answer_with_shuffle", 0)
    /\ UNCHANGED <<session_state, sheet, conn, pc, save_data, df, shadow,
                   last_save, notice, failures>>

NextEval == ApplyEval

SpecEval == InitEval /\ [][NextEval]_vars

(***************************************************************************)
(* The properties.                                                         *)
(***************************************************************************)

\* C1: after any sequence of user actions no read indexes the filtered view
\* at or beyond its length: no script run dies on the header's read of
\* filtered_indices[current_index].
C1_NoIndexFault == ~session_state[1].fault

\* C2: on a non-empty view of length L with the cursor at p, 0 <= p < L,
\* next sets the position to p+1 if p < L-1 and to 0 otherwise, prev sets it
\* to p-1 if p > 0 and to L-1 otherwise, and the result is again in [0, L).
C2_NextPrevWrap ==
    [][LET s == session_state[1]
           L == Len(get_filtered_indices(s))
           p == s.current_index
           p2 == session_state'[1].current_index
       IN (L > 0 /\ 0 <= p /\ p < L) =>
             /\ last_op'.op = "next" =>
                   /\ p2 = (IF p < L - 1 THEN p + 1 ELSE 0)
                   /\ p2 \in 0..(L - 1)
             /\ last_op'.op = "prev" =>
                   /\ p2 = (IF p > 0 THEN p - 1 ELSE L - 1)
                   /\ p2 \in 0..(L - 1)]_vars

\* next has wrapped from the last position of a view of several questions
C2_Wrapped ==
    /\ last_op.op = "next"
    /\ ~session_state[1].fault
    /\ session_state[1].current_index = 0
    /\ Len(get_filtered_indices(session_state[1])) >= 2

C4_AcceptedSubmission ==
    [][LET s == session_state[1]
           t == session_state'[1]
           q == current_question(s)
           c == check_answer_with_shuffle(At0(s.questions, q),
                    s.selected_options, get_shuffled_options(s, q))
           old == s.current_session_stats
           new == t.current_session_stats
       IN (last_op'.op = "submit" /\ s.selected_options # {}) =>
             /\ DOMAIN t.history = DOMAIN s.history \cup {q}
             /\ t.history[q] =
                   [correct |-> c,
                    attempts |-> IF q \in DOMAIN s.history
                                 THEN s.history[q].attempts + 1
                                 ELSE 1]
             /\ \A o \in DOMAIN s.history \ {q} : t.history[o] = s.history[o]
             /\ new.total = old.total + 1
             /\ new.correct = old.correct + (IF c THEN 1 ELSE 0)
             /\ new.incorrect = old.incorrect + (IF c THEN 0 ELSE 1)]_vars

\* a question answered wrongly, then again and rightly
C4_RepeatedQuestion ==
    /\ last_op.op = "submit"
    /\ session_state[1].answered
    /\ session_state[1].current_session_stats =
          [correct |-> 1, incorrect |-> 1, total |-> 2]
    /\ \E q \in DOMAIN session_state[1].history :
          session_state[1].history[q] = [correct |-> TRUE, attempts |-> 2]

\* C5: in every reachable state of a session, hydrated or not, after any
\* submissions and after clearing the history, total = correct + incorrect
\* with neither counter negative.
C5_StatsSum ==
    LET stats == session_state[1].current_session_stats
    IN /\ stats.total = stats.correct + stats.incorrect
       /\ stats.correct >= 0
       /\ stats.incorrect >= 0

\* a session hydrated from a stored row that counts a wrong answer
C5_HydratedStats ==
    /\ last_op.op = "reload"
    /\ session_state[1].current_session_stats.incorrect >= 1
    /\ session_state[1].current_session_stats.total >= 1

\* C6: a submission with an empty selection is rejected: history, stats,
\* cursor position and answered flag are unchanged, no save is attempted
\* and the rejection is signalled.
C6_EmptySelectionRejected ==
    [][LET s == session_state[1]
           t == session_state'[1]
       IN (last_op'.op = "submit" /\ s.selected_options = {}) =>
             /\ t.history = s.history
             /\ t.current_session_stats = s.current_session_stats
             /\ t.current_index = s.current_index
             /\ t.answered = s.answered
             /\ sheet' = sheet
             /\ last_save' = "none"
             /\ notice' = "select_option"]_vars

\* the checkbox question was submitted with no box ticked
C6_RejectedOnce ==
    /\ last_op.op = "submit"
    /\ notice = "select_option"
    /\ session_state[1].selected_options = {}
    /\ ~session_state[1].answered

\* C7: after every saving action the session is what it would be had the
\* save succeeded, whether the save succeeded, failed on its read or its
\* write, or was skipped for want of a connection; a failure only adds the
\* warning.
C7_SaveOutcomeIsolated ==
    /\ session_state[1] = shadow
    /\ (notice = "save_error") = (last_save = "failed")

\* an answer was recorded although its save failed
C7_FailedSaveOnSubmit ==
    /\ last_op.op = "submit"
    /\ last_save = "failed"
    /\ notice = "save_error"
    /\ session_state[1].answered
    /\ session_state[1].current_session_stats.total >= 1

\* C8: sessions of one user id save in any interleaving: each write that
\* completes leaves, as that user's row, exactly the snapshot of the session
\* that wrote, so the row after both writes is the last writer's snapshot
\* with nothing of the other session merged in.
C8_LastWriteWins ==
    [][(last_op'.op = "tab_write" /\ last_save' = "written") =>
          LET i == last_op'.arg
              user_id == session_state[i].user_id
          IN /\ user_id \in DOMAIN sheet'
             /\ sheet'[user_id] = save_data[i]]_vars

\* the lost update: both sessions of the user saved without any failure,
\* and the mark one of them holds is missing from the row the other left
C8_LostUpdate ==
    \E i, j \in Sessions :
        /\ i # j
        /\ session_state[i].user_id = session_state[j].user_id
        /\ pc[i] = "idle" /\ pc[j] = "idle"
        /\ failures = 0
        /\ last_op = Op("tab_write", j)
        /\ last_save = "written"
        /\ session_state[i].marked_questions = {0}
        /\ session_state[j].marked_questions = {}
        /\ sheet[session_state[j].user_id] = build_save_data(session_state[j])
        /\ sheet[session_state[j].user_id].marked = <<>>

\* C9: once the worksheet holds a row for a user id, every later worksheet
\* holds a row for it, whatever the interleaving of saves and also when a
\* save's read fails and its write succeeds.
C9_RowsNeverDeleted ==
    [][\A user_id \in DOMAIN sheet : user_id \in DOMAIN sheet']_vars

\* C10: between two epoch resets the option order of every question stays
\* the same sequence, whatever else happens: a re-render, a rejected empty
\* submission, reading the order of another question.
EpochResetOps == {"next", "prev", "try_again", "jump_to", "go_marked", "reload"}

C10_OrderStable ==
    [][last_op'.op \notin EpochResetOps =>
          \A q \in QIds(session_state[1]) :
              get_shuffled_options(session_state'[1], q)
                  = get_shuffled_options(session_state[1], q)]_vars

\* an empty submission was rejected while the orders of both questions were
\* memoized in the same epoch
C10_TwoOrdersOneEpoch ==
    /\ last_op.op = "submit"
    /\ notice = "select_option"
    /\ DOMAIN session_state[1].option_order = {0, 1}

\* C11: for every question with correct options C (original indices), every
\* order of its options and every non-empty set S of display positions, the
\* evaluator answers true exactly when the original indices of the selected
\* positions are C: the outcome is a function of the original options
\* selected, not of the order they were shown in.
C11_EvaluatorByOriginalIndex ==
    returned # <<>> =>
        LET s == session_state[1]
            question == At0(s.questions, 0)
            order == s.option_order[0]
            C == {k \in 0..(Len(question) - 1) : At0(question, k) = "correct"}
            picked == {At0(order, p) : p \in s.selected_options}
        IN returned[1] = (picked = C)

\* a right answer given through display positions that are not the original
\* indices of the correct options
C11_RightAnswerShuffled ==
    /\ returned = <<TRUE>>
    /\ LET s == session_state[1]
           question == At0(s.questions, 0)
       IN /\ s.selected_options
                # {k \in 0..(Len(question) - 1) : At0(question, k) = "correct"}
          /\ Cardinality(s.selected_options) = 2

\* C12: a jump to a valid bank index sets the position to the index of the
\* target within the view if the target is in the view; otherwise the filter
\* becomes {all} and the position the target's absolute index.  Either way
\* the question at view[position] after the jump is the target.  The Go
\* button of the marked list follows the same rule.
C12_JumpLandsOnTarget ==
    [][last_op'.op \in {"jump_to", "go_marked"} =>
          LET s == session_state[1]
              t == session_state'[1]
              target == last_op'.arg
              view == get_filtered_indices(s)
              landed == get_filtered_indices(t)
          IN /\ target \in Elems(view) =>
                   t.current_index = Index0(view, target)
             /\ target \notin Elems(view) => t.filter_modes = {"all"}
             /\ t.current_index < Len(landed)
             /\ At0(landed, t.current_index) = target]_vars

\* C13: every change of the filter state that changes the view (another tag
\* set, the reset-filters button, the bank shuffle toggle) leaves the
\* position at 0.
C13_FilterChangeResetsPosition ==
    [][LET s == session_state[1]
           t == session_state'[1]
       IN (/\ last_op'.op \in {"set_filters", "reset_filters",
                               "toggle_bank_shuffle"}
           /\ \/ t.filter_modes # s.filter_modes
              \/ t.shuffle_mode # s.shuffle_mode
              \/ get_filtered_indices(t) # get_filtered_indices(s))
          => t.current_index = 0]_vars

\* the last save left the cursor on question 1; the filter was then set to
\* {marked}, a view that holds both questions, and the cursor is at 0
C13_MovedBackToFirst ==
    /\ last_op.op = "set_filters"
    /\ session_state[1].filter_modes = {"marked"}
    /\ session_state[1].marked_questions = {0, 1}
    /\ session_state[1].current_index = 0
    /\ "u1" \in DOMAIN sheet
    /\ sheet["u1"].last_question_index = 1

\* C14: clearing the history empties the history and zeroes the stats and
\* leaves the marks alone; clearing the marks empties the mark set and
\* leaves history and stats alone; neither touches the filter state.
C14_ClearFrames ==
    [][LET s == session_state[1]
           t == session_state'[1]
       IN /\ last_op'.op = "clear_history" =>
                /\ t.history = <<>>
                /\ t.current_session_stats = ZeroStats
                /\ t.marked_questions = s.marked_questions
                /\ t.filter_modes = s.filter_modes
          /\ last_op'.op = "clear_marks" =>
                /\ t.marked_questions = {}
                /\ t.history = s.history
                /\ t.current_session_stats = s.current_session_stats
                /\ t.filter_modes = s.filter_modes]_vars

\* the history was cleared right after an answer, under the filter
\* {marked} and with a mark set
C14_HistoryClearedMarksKept ==
    /\ last_op.op = "clear_history"
    /\ session_state[1].answered
    /\ session_state[1].history = <<>>
    /\ session_state[1].marked_questions # {}
    /\ session_state[1].filter_modes = {"marked"}

\* a step of a saving handler that got as far as its save
Saved(s, op) ==
    /\ op.op \in SavingOps
    /\ op.op = "submit" => s.selected_options # {}

\* C15: a successful save followed by a successful load in a new session of
\* the same user id, with no other writer in between, gives the new session
\* the history (with integer question ids), the mark set and the stats the
\* saving session had when it saved.
C15_SaveLoadRoundTrip ==
    [][LET s == session_state[1]
           t == session_state'[1]
       IN (last_op'.op = "reload" /\ s.user_id \in DOMAIN sheet) =>
             /\ DOMAIN t.history \subseteq QIds(t)
             /\ t.history = s.history
             /\ t.marked_questions = s.marked_questions
             /\ t.current_session_stats = s.current_session_stats]_vars

\* a new session hydrated with a twice-answered question, a mark and the
\* stats of two answers
C15_HydratedFromRow ==
    /\ last_op.op = "reload"
    /\ session_state[1].marked_questions # {}
    /\ session_state[1].current_session_stats.total = 2
    /\ \E q \in DOMAIN session_state[1].history :
          session_state[1].history[q].attempts = 2

\* C16: no failure disables saving for good: after a failure of the
\* connection, of a read or of a write, every later saving action attempts
\* its write again, and the write succeeds when the store does not fail.
C16_SavingNeverDisabled ==
    [][Saved(session_state[1], last_op') =>
          /\ last_save' \in {"written", "failed"}
          /\ failures' = failures => last_save' = "written"]_vars

\* C17: every action after which the question at view[position] is another
\* one (navigation, jump, filter change, bank shuffle toggle, a mutation
\* that shrinks the view under the cursor), and the try-again button, reset
\* the shuffle epoch: every memoized option order is dropped, so that the
\* render that follows holds the order of the shown question only.
C17_EpochResetOnQuestionChange ==
    [][LET s == session_state[1]
           t == session_state'[1]
           shown(x) == ~x.fault /\ get_filtered_indices(x) # <<>>
       IN (/\ shown(t)
           /\ \/ last_op'.op = "try_again"
              \/ shown(s) /\ current_question(t) # current_question(s))
          => DOMAIN t.option_order \subseteq {current_question(t)}]_vars

\* C18: in one session with an available store every domain mutation
\* (accepted submission, mark toggle, next, prev, jump, clear history, clear
\* marks) saves before it completes, and right after it the stored row of
\* the user holds the history, the mark set and the stats the session has
\* in memory.
C18_RowFollowsMemory ==
    [][Saved(session_state[1], last_op') =>
          LET t == session_state'[1]
              row == sheet'[t.user_id]
          IN /\ last_save' = "written"
             /\ t.user_id \in DOMAIN sheet'
             /\ DOMAIN row.history = {KeyStr(q) : q \in DOMAIN t.history}
             /\ \A q \in DOMAIN t.history : row.history[KeyStr(q)] = t.history[q]
             /\ Elems(row.marked) = t.marked_questions
             /\ Len(row.marked) = Cardinality(t.marked_questions)
             /\ row.stats = t.current_session_stats]_vars

\* the second mark was just stored, next to a recorded answer
C18_MarkStored ==
    /\ last_op.op = "toggle_mark"
    /\ last_save = "written"
    /\ "u1" \in DOMAIN sheet
    /\ sheet["u1"].marked = <<0, 1>>
    /\ sheet["u1"].stats.total >= 1
    /\ DOMAIN sheet["u1"].history # {}

\* C19: every save records as last_question_index the bank index of the
\* question shown after the saving action, and a new session started from
\* that record, with the filter {all} and the bank order, shows that
\* question first.
C19_LastQuestionRecorded ==
    [][LET t == session_state'[1]
       IN (/\ Saved(session_state[1], last_op')
           /\ last_save' = "written"
           /\ get_filtered_indices(t) # <<>>) =>
             LET row == sheet'[t.user_id]
                 fresh == rerun(initialize_session_state(t.questions,
                                    t.user_id, t.shuffle_seed, <<row>>))
             IN /\ ~t.fault
                /\ row.last_question_index = current_question(t)
                /\ ~fresh.fault
                /\ current_question(fresh) = row.last_question_index]_vars

\* C20: an empty view is a valid state: while the view is empty no element
\* of it is read and no navigation action (next, prev, jump, Go) is
\* offered, the reset-filters button is enabled, and pressing it sets the
\* filter to {all}, the position to 0 and the answered flag to false, which
\* makes the view non-empty.
C20_EmptyViewRecovers ==
    [][LET s == session_state[1]
           t == session_state'[1]
       IN /\ get_filtered_indices(s) = <<>> =>
                /\ ~s.fault
                /\ ENABLED ResetFilters(1)
                /\ last_op'.op \notin {"next", "prev", "jump_to", "go_marked"}
          /\ last_op'.op = "reset_filters" =>
                /\ t.filter_modes = {"all"}
                /\ t.current_index = 0
                /\ ~t.answered
                /\ get_filtered_indices(t) # <<>>]_vars

\* C21: in every reachable state the filter state is a non-empty set of
\* tags that is either exactly {all} or holds specific tags only, whatever
\* filter checkboxes the user ticks.
C21_FilterStateShape ==
    LET filter_modes == session_state[1].filter_modes
    IN /\ filter_modes \subseteq Tags
       /\ filter_modes # {}
       /\ "all" \in filter_modes => filter_modes = {"all"}

\* the three specific tags were ticked one after the other
C21_AllSpecificTags ==
    /\ last_op.op = "set_filters"
    /\ session_state[1].filter_modes = {"marked", "incorrect", "unanswered"}

\* C22: a save by a session of one user changes that user's row only: in
\* every interleaving of the reads and writes of the sessions, a write
\* leaves the row of every other user as that user's own last write left it.
C22_WriteTouchesOwnRowOnly ==
    [][last_op'.op = "tab_write" =>
          \A user_id \in DOMAIN sheet :
              user_id # session_state[last_op'.arg].user_id =>
                  /\ user_id \in DOMAIN sheet'
                  /\ sheet'[user_id] = sheet[user_id]]_vars

\* C23: after an accepted submission for question q the question at
\* view[position], the one whose result is displayed, is still q, for every
\* filter set, and stays q until a navigation, retry or filter action.
C23_AnsweredQuestionStays ==
    [][LET s == session_state[1]
           t == session_state'[1]
           shown(x) == ~x.fault /\ get_filtered_indices(x) # <<>>
       IN /\ (last_op'.op = "submit" /\ s.selected_options # {}) =>
                /\ shown(t)
                /\ current_question(t) = last_op'.arg
          /\ (/\ s.answered
              /\ shown(s)
              /\ last_op'.op \in {"toggle_mark", "clear_history",
                                  "clear_marks"}) =>
                /\ shown(t)
                /\ current_question(t) = current_question(s)]_vars

\* the attempts recorded in a history, summed over its entries
RECURSIVE SumAttempts(_)
SumAttempts(history) ==
    IF DOMAIN history = {}
    THEN 0
    ELSE LET q == CHOOSE k \in DOMAIN history : TRUE
         IN history[q].attempts
            + SumAttempts([k \in DOMAIN history \ {q} |-> history[k]])

\* C24: in every reachable state of a session that started empty or was
\* hydrated from a row this program wrote, the stats total is the sum of
\* the attempts of all history entries, and every entry has at least one
\* attempt.
C24_TotalIsSumOfAttempts ==
    LET s == session_state[1]
    IN /\ s.current_session_stats.total = SumAttempts(s.history)
       /\ \A q \in DOMAIN s.history : s.history[q].attempts >= 1

\* both questions answered once, the second save lost to a store failure
C24_TwoEntries ==
    /\ last_op.op = "submit"
    /\ last_save = "failed"
    /\ DOMAIN session_state[1].history = {0, 1}
    /\ session_state[1].current_session_stats.total = 2

====
